---- MODULE Spec2Model ----
(***************************************************************************)
(* Model of src/fs.py (class fileSys): a FAT-like store kept in one host   *)
(* file.  The backing file is a sequence of bytes; every operation is      *)
(* translated with the file position the Python code works with, so that   *)
(* reads at end-of-file come back short exactly as file.read() does.       *)
(*                                                                         *)
(* The geometry is scaled down (block size, bytes per MB, directory        *)
(* capacity, header size), keeping the relations of the real layout:       *)
(*   one "MB" is BytesPerMB bytes, a multiple of BlockSize, and larger     *)
(*   than data_start of a 1 MB store, so the tables and the first data     *)
(*   blocks lie inside the file and the last data blocks past its end;     *)
(*   an allocation-table slot is 4 bytes (struct 'I', little endian);      *)
(*   a directory slot is 14 name bytes, the flag byte and 7 more bytes;    *)
(*   the character codes used in names are below the block count of a      *)
(*   1 MB store, as 47 = '/' and the ASCII letters are below 256.          *)
(***************************************************************************)
EXTENDS Integers, Sequences, FiniteSets, TLC

\* ---- bounds of the exploration ----
MaxOps == 3
MaxDirOps == 4
MaxScopeOps == 5
MaxNameOps == 3
MaxListOps == 4
MaxFrameOps == 4
MaxSizeMb == 1

\* ---- program constants (scaled) ----
BlockSize == 32
MaxFilenameLength == 14
HeaderSize == 24
DirCapacity == 3
BytesPerMB == 256
WordSize == 4
EntryTail == 8

\* ---- byte codes ----
Slash == 2
ChA == 3
ChB == 4
BadByte == 255

VARIABLES file, h, fmt, last, left

vars == <<file, h, fmt, last, left>>

\* ---------------------------------------------------------------------
\* bytes and sequences
\* ---------------------------------------------------------------------
Min(a, b) == IF a < b THEN a ELSE b
Max(a, b) == IF a > b THEN a ELSE b

Rep(b, n) == [i \in 1..n |-> b]

Zeros(n) == Rep(0, n)

\* bytes.ljust(n, b'\x00'): pads, never truncates
Ljust(s, n) == IF Len(s) >= n THEN s ELSE s \o Zeros(n - Len(s))

\* s[:n]
Take(s, n) == SubSeq(s, 1, Min(n, Len(s)))

\* s[n:]
Drop(s, n) == SubSeq(s, n + 1, Len(s))

RECURSIVE Rstrip(_)
\* bytes.rstrip(b'\x00')
Rstrip(s) == IF Len(s) > 0 /\ s[Len(s)] = 0 THEN Rstrip(SubSeq(s, 1, Len(s) - 1)) ELSE s

\* struct.pack('I', v)
Pack(v) == << v % 256, (v \div 256) % 256, (v \div 65536) % 256, (v \div 16777216) % 256 >>

\* struct.unpack('I', b)[0] for a 4-byte b
Unpack(b) == b[1] + 256 * b[2] + 65536 * b[3] + 16777216 * b[4]

\* bytes.decode('utf-8') succeeds; the only non-ASCII byte written by the
\* modelled callers is 0xFF, which no UTF-8 text contains
Utf8Ok(s) == \A i \in 1..Len(s) : s[i] < 128

\* ---------------------------------------------------------------------
\* the backing file: seek + read / seek + write
\* ---------------------------------------------------------------------
\* f.seek(pos); f.read(n): short or empty at end of file
ReadAt(f, pos, n) == IF pos >= Len(f) THEN << >> ELSE SubSeq(f, pos + 1, Min(pos + n, Len(f)))

\* f.seek(pos); f.write(b): the gap after end of file is zero filled,
\* writing nothing changes nothing
WriteAt(f, pos, b) ==
    IF Len(b) = 0 THEN f
    ELSE [i \in 1..Max(Len(f), pos + Len(b)) |->
            IF i > pos /\ i <= pos + Len(b) THEN b[i - pos]
            ELSE IF i <= Len(f) THEN f[i] ELSE 0]

\* ---------------------------------------------------------------------
\* the handle (fields of self)
\* ---------------------------------------------------------------------
EntrySize(hd) == hd.max_filename_length + EntryTail

TotalBlocks(hd) == (hd.size_mb * BytesPerMB) \div hd.block_size

\* fileSys.__init__, lines 8-14: geometry computed from the caller's size
NewHandle(size_mb) ==
    [ size_mb |-> size_mb,
      block_size |-> BlockSize,
      max_filename_length |-> MaxFilenameLength,
      header_size |-> HeaderSize,
      fat_start |-> HeaderSize,
      root_dir_start |-> HeaderSize + ((size_mb * BytesPerMB) \div BlockSize) * WordSize,
      data_start |-> HeaderSize + ((size_mb * BytesPerMB) \div BlockSize) * WordSize
                        + (MaxFilenameLength + EntryTail) * DirCapacity ]

\* ---------------------------------------------------------------------
\* directory scans
\* ---------------------------------------------------------------------
\* position of the file before the i-th sequential read of a scan that
\* started with seek(base): reads stop advancing at end of file
ScanPos(f, base, i, es) == IF base > Len(f) THEN base ELSE Min(base + i * es, Len(f))

Entry(f, hd, i) == ReadAt(f, ScanPos(f, hd.root_dir_start, i, EntrySize(hd)), EntrySize(hd))

\* entry[:max_filename_length].rstrip(b'\x00')
EntryName(f, hd, i) == Rstrip(Take(Entry(f, hd, i), hd.max_filename_length))

RECURSIVE FirstEmptyButLast(_, _, _)
\* FirstEmpty with the scan one slot short (range(1023))
FirstEmptyButLast(f, hd, i) ==
    IF i >= DirCapacity - 1 THEN -1
    ELSE IF EntryName(f, hd, i) = << >> THEN i
    ELSE FirstEmptyButLast(f, hd, i + 1)

RECURSIVE FirstEmptyFromEnd(_, _, _)
\* FirstEmpty with the slots scanned from the last one down: the highest
\* empty slot among i, i+1, .., or -1
FirstEmptyFromEnd(f, hd, i) ==
    IF i >= DirCapacity THEN -1
    ELSE IF FirstEmptyFromEnd(f, hd, i + 1) >= 0 THEN FirstEmptyFromEnd(f, hd, i + 1)
    ELSE IF EntryName(f, hd, i) = << >> THEN i
    ELSE -1

RECURSIVE FirstEmpty(_, _, _)
\* the scan of create_directory / create_text_file / copy_to_fs:
\* index of the first slot whose stripped name is b'', or -1
FirstEmpty(f, hd, i) ==
    IF i >= DirCapacity THEN -1
    ELSE IF EntryName(f, hd, i) = << >> THEN i
    ELSE FirstEmpty(f, hd, i + 1)

RECURSIVE ScanName(_, _, _, _, _)
\* the by-name scan of rename_file, remove_file, protect_file,
\* unprotect_file, move and show_text_file: index of the first slot whose
\* decoded name equals name, -1 when the scan ends without a match, -2 when
\* decoding a slot's name raises UnicodeDecodeError.  stopAtEof is the
\* "if not entry: break" that show_text_file and move's second loop lack.
ScanName(f, hd, name, i, stopAtEof) ==
    IF i >= DirCapacity THEN -1
    ELSE IF stopAtEof /\ Entry(f, hd, i) = << >> THEN -1
    ELSE IF ~Utf8Ok(EntryName(f, hd, i)) THEN -2
    ELSE IF EntryName(f, hd, i) = name THEN i
    ELSE ScanName(f, hd, name, i + 1, stopAtEof)

RECURSIVE ScanDir(_, _, _, _)
\* the scan of change_directory: the name must match and the flag byte
\* entry[max_filename_length] must be 1; -3 when that index is past the
\* end of a short entry (IndexError)
ScanDir(f, hd, name, i) ==
    IF i >= DirCapacity THEN -1
    ELSE IF Entry(f, hd, i) = << >> THEN -1
    ELSE IF ~Utf8Ok(EntryName(f, hd, i)) THEN -2
    ELSE IF EntryName(f, hd, i) = name
         THEN IF Len(Entry(f, hd, i)) <= hd.max_filename_length THEN -3
              ELSE IF Entry(f, hd, i)[hd.max_filename_length + 1] = 1 THEN i
              ELSE ScanDir(f, hd, name, i + 1)
    ELSE ScanDir(f, hd, name, i + 1)

SlotPos(f, hd, i) == ScanPos(f, hd.root_dir_start, i, EntrySize(hd))

\* result of one call: the file and handle it leaves, how it ended
\* ("ok" or the exception), what it returned or printed
Res(f, hd, outcome, out) == [f |-> f, hd |-> hd, outcome |-> outcome, out |-> out]

ScanError(k) == IF k = -2 THEN "decode_error" ELSE IF k = -3 THEN "index_error" ELSE "not_found"

\* ---------------------------------------------------------------------
\* directory operations
\* ---------------------------------------------------------------------
\* fileSys.create_directory
create_directory(f, hd, dirname) ==
    LET k == FirstEmpty(f, hd, 0) IN
    IF k < 0 THEN Res(f, hd, "dir_full", << >>)
    ELSE Res(WriteAt(f, SlotPos(f, hd, k),
                     Ljust(dirname, hd.max_filename_length) \o <<1>> \o Zeros(7)),
             hd, "ok", << >>)

\* fileSys.rename_file
rename_file(f, hd, old_name, new_name) ==
    LET k == ScanName(f, hd, old_name, 0, TRUE) IN
    IF k < 0 THEN Res(f, hd, ScanError(k), << >>)
    ELSE Res(WriteAt(f, SlotPos(f, hd, k),
                     Ljust(new_name, hd.max_filename_length)
                        \o Drop(Entry(f, hd, k), hd.max_filename_length)),
             hd, "ok", << >>)

\* fileSys.remove_file
remove_file(f, hd, filename) ==
    LET k == ScanName(f, hd, filename, 0, TRUE) IN
    IF k < 0 THEN Res(f, hd, ScanError(k), << >>)
    ELSE Res(WriteAt(f, SlotPos(f, hd, k), Zeros(Len(Entry(f, hd, k)))), hd, "ok", << >>)

\* the write shared by protect_file and unprotect_file
SetFlag(f, hd, filename, flag) ==
    LET k == ScanName(f, hd, filename, 0, TRUE) IN
    IF k < 0 THEN Res(f, hd, ScanError(k), << >>)
    ELSE Res(WriteAt(f, SlotPos(f, hd, k),
                     Take(Entry(f, hd, k), hd.max_filename_length) \o <<flag>>
                        \o Drop(Entry(f, hd, k), hd.max_filename_length + 1)),
             hd, "ok", << >>)

\* fileSys.protect_file
protect_file(f, hd, filename) == SetFlag(f, hd, filename, 1)

\* fileSys.unprotect_file
unprotect_file(f, hd, filename) == SetFlag(f, hd, filename, 0)

\* fileSys.move
move(f, hd, src_name, dest_dir) ==
    LET k == ScanName(f, hd, src_name, 0, TRUE) IN
    IF k < 0 THEN Res(f, hd, ScanError(k), << >>)
    ELSE LET src_entry == Entry(f, hd, k)
             f1 == WriteAt(f, SlotPos(f, hd, k), Zeros(Len(src_entry)))
             d == ScanName(f1, hd, dest_dir, 0, FALSE)
         IN IF d < 0 THEN Res(f1, hd, ScanError(d), << >>)
            ELSE Res(WriteAt(f1, SlotPos(f1, hd, d),
                             Take(src_entry, hd.max_filename_length) \o <<1>>
                                \o Drop(src_entry, hd.max_filename_length + 1)),
                     hd, "ok", << >>)

\* fileSys.change_directory
change_directory(f, hd, dirname) ==
    LET k == ScanDir(f, hd, dirname, 0) IN
    IF k < 0 THEN Res(f, hd, ScanError(k), << >>)
    ELSE Res(f, [hd EXCEPT !.root_dir_start = SlotPos(f, hd, k)], "ok", << >>)

RECURSIVE ListFrom(_, _, _)
\* the loop of list_files: the names collected, and whether decoding every
\* scanned name succeeded (no UnicodeDecodeError)
ListFrom(f, hd, i) ==
    IF i >= DirCapacity \/ Entry(f, hd, i) = << >> THEN [ok |-> TRUE, names |-> << >>]
    ELSE IF ~Utf8Ok(EntryName(f, hd, i)) THEN [ok |-> FALSE, names |-> << >>]
    ELSE LET rest == ListFrom(f, hd, i + 1) IN
         IF EntryName(f, hd, i) # << >> /\ rest.ok
         THEN [ok |-> TRUE, names |-> << EntryName(f, hd, i) >> \o rest.names]
         ELSE rest

\* fileSys.list_files
list_files(f, hd) ==
    IF ListFrom(f, hd, 0).ok THEN Res(f, hd, "ok", ListFrom(f, hd, 0).names)
    ELSE Res(f, hd, "decode_error", << >>)

\* ---------------------------------------------------------------------
\* allocation table and file contents
\* ---------------------------------------------------------------------
RECURSIVE UsedFrom(_, _, _)
\* the loop of free_space: total_blocks sequential 4-byte reads from
\* fat_start, counting those that are not four zero bytes
UsedFrom(f, hd, i) ==
    IF i >= TotalBlocks(hd) THEN 0
    ELSE (IF ReadAt(f, ScanPos(f, hd.fat_start, i, WordSize), WordSize) # Zeros(WordSize)
          THEN 1 ELSE 0) + UsedFrom(f, hd, i + 1)

used_blocks(f, hd) == UsedFrom(f, hd, 0)

\* fileSys.free_space
free_space(f, hd) == (TotalBlocks(hd) - used_blocks(f, hd)) * hd.block_size

RECURSIVE CreateLoop(_, _, _, _, _)
\* the block loop of create_text_file.  pos is the position of the file:
\* it starts at fat_start and, after a block has been written, is left
\* behind the chunk in the data region, where the next fat_entry is read.
\* Result: the file and whether the loop ended by break.
CreateLoop(f, hd, pos, block_index, content_bytes) ==
    IF block_index >= TotalBlocks(hd) THEN [f |-> f, done |-> FALSE]
    ELSE LET fat_entry == ReadAt(f, pos, WordSize) IN
         IF fat_entry = Zeros(WordSize)
         THEN LET f1 == WriteAt(f, pos, Pack(block_index + 1))
                  at == hd.data_start + block_index * hd.block_size
                  chunk == Take(content_bytes, hd.block_size)
                  f2 == WriteAt(f1, at, chunk)
                  rest == Drop(content_bytes, hd.block_size)
              IN IF rest = << >> THEN [f |-> f2, done |-> TRUE]
                 ELSE CreateLoop(f2, hd, at + Len(chunk), block_index + 1, rest)
         ELSE CreateLoop(f, hd, pos + Len(fat_entry), block_index + 1, content_bytes)

\* fileSys.create_text_file
create_text_file(f, hd, filename, content) ==
    LET a == CreateLoop(f, hd, hd.fat_start, 0, content)
        k == FirstEmpty(a.f, hd, 0)
    IN IF ~a.done THEN Res(a.f, hd, "no_space", << >>)
       ELSE IF k < 0 THEN Res(a.f, hd, "dir_full", << >>)
       ELSE Res(WriteAt(a.f, SlotPos(a.f, hd, k),
                        Ljust(filename, hd.max_filename_length) \o Zeros(8)),
                hd, "ok", << >>)

RECURSIVE FreeBlocks(_, _, _, _, _)
\* the scan of copy_to_fs for free blocks (lines 68-77): the indices
\* collected when the loop breaks, or <<-1>> when it runs to its end
FreeBlocks(f, hd, block_index, free_blocks, n) ==
    IF block_index >= TotalBlocks(hd) THEN << -1 >>
    ELSE IF ReadAt(f, ScanPos(f, hd.fat_start, block_index, WordSize), WordSize) = Zeros(WordSize)
         THEN IF (Len(free_blocks) + 1) * hd.block_size >= n
              THEN Append(free_blocks, block_index)
              ELSE FreeBlocks(f, hd, block_index + 1, Append(free_blocks, block_index), n)
         ELSE FreeBlocks(f, hd, block_index + 1, free_blocks, n)

RECURSIVE StoreBlocks(_, _, _, _)
\* the loop of copy_to_fs over free_blocks (lines 82-89)
StoreBlocks(f, hd, free_blocks, data) ==
    IF free_blocks = << >> THEN f
    ELSE LET block_index == Head(free_blocks)
             f1 == WriteAt(f, hd.fat_start + block_index * WordSize, Pack(block_index + 1))
             f2 == WriteAt(f1, hd.data_start + block_index * hd.block_size,
                           Take(data, hd.block_size))
         IN IF Drop(data, hd.block_size) = << >> THEN f2
            ELSE StoreBlocks(f2, hd, Tail(free_blocks), Drop(data, hd.block_size))

\* fileSys.copy_to_fs; basename is os.path.basename(src_path), data the
\* bytes of the host file
copy_to_fs(f, hd, basename, data) ==
    LET k == FirstEmpty(f, hd, 0) IN
    IF k < 0 THEN Res(f, hd, "dir_full", << >>)
    ELSE LET f1 == WriteAt(f, SlotPos(f, hd, k),
                           Ljust(basename, hd.max_filename_length) \o Zeros(8))
             free_blocks == FreeBlocks(f1, hd, 0, << >>, Len(data))
         IN IF free_blocks = << -1 >> THEN Res(f1, hd, "no_space", << >>)
            ELSE Res(StoreBlocks(f1, hd, free_blocks, data), hd, "ok", << >>)

RECURSIVE Walk(_, _, _, _, _)
\* the while loop of show_text_file.  seen is the set of indices the loop
\* has already had in block_index: the file does not change during the
\* call, so meeting one again means the loop never ends.
Walk(f, hd, block_index, data, seen) ==
    IF block_index = 0 THEN [end |-> "ok", data |-> data, links |-> seen]
    ELSE IF block_index \in seen THEN [end |-> "hang", data |-> data, links |-> seen]
    ELSE LET blk == ReadAt(f, hd.data_start + (block_index - 1) * hd.block_size, hd.block_size)
             nxt == ReadAt(f, hd.fat_start + block_index * WordSize, WordSize)
         IN IF Len(nxt) < WordSize
            THEN [end |-> "struct_error", data |-> data \o blk, links |-> seen \cup {block_index}]
            ELSE Walk(f, hd, Unpack(nxt), data \o blk, seen \cup {block_index})

\* the chain walk show_text_file makes for the entry found in slot k:
\* the first link is read from allocation-table slot k
WalkOf(f, hd, k) ==
    LET first == ReadAt(f, hd.fat_start + k * WordSize, WordSize) IN
    IF Len(first) < WordSize THEN [end |-> "struct_error", data |-> << >>, links |-> {}]
    ELSE Walk(f, hd, Unpack(first), << >>, {})

\* fileSys.show_text_file; out is the content it prints
show_text_file(f, hd, filename) ==
    LET k == ScanName(f, hd, filename, 0, FALSE) IN
    IF k < 0 THEN Res(f, hd, ScanError(k), << >>)
    ELSE LET w == WalkOf(f, hd, k) IN
         IF w.end # "ok" THEN Res(f, hd, w.end, << >>)
         ELSE IF ~Utf8Ok(w.data) THEN Res(f, hd, "decode_error", << >>)
         ELSE Res(f, hd, "ok", Rstrip(w.data))

\* ---------------------------------------------------------------------
\* format and reopen
\* ---------------------------------------------------------------------
\* the six header fields written by create_fs and read back by __init__
Header(hd) ==
    Pack(hd.header_size) \o Pack(hd.block_size) \o Pack(hd.size_mb * BytesPerMB)
        \o Pack(hd.fat_start) \o Pack(hd.root_dir_start) \o Pack(hd.data_start)

\* fileSys.create_fs: zero fill, header, then create_directory('/')
create_fs(hd) ==
    create_directory(WriteAt(Zeros(hd.size_mb * BytesPerMB), 0, Header(hd)), hd, << Slash >>)

\* fileSys.__init__ on an existing file, lines 19-26: the fields of the
\* handle after the header has been read
HandleFromHeader(f, size_mb) ==
    [ NewHandle(size_mb) EXCEPT
        !.header_size = Unpack(ReadAt(f, 0, WordSize)),
        !.block_size = Unpack(ReadAt(f, 4, WordSize)),
        !.size_mb = Unpack(ReadAt(f, 8, WordSize)) \div BytesPerMB,
        !.fat_start = Unpack(ReadAt(f, 12, WordSize)),
        !.root_dir_start = Unpack(ReadAt(f, 16, WordSize)),
        !.data_start = Unpack(ReadAt(f, 20, WordSize)) ]

RECURSIVE FindRoot(_, _, _)
\* the scan of set_initial_directory: first slot named b'/', or -1
FindRoot(f, hd, i) ==
    IF i >= DirCapacity THEN -1
    ELSE IF EntryName(f, hd, i) = << Slash >> THEN i
    ELSE FindRoot(f, hd, i + 1)

\* fileSys.set_initial_directory
set_initial_directory(f, hd) ==
    LET k == FindRoot(f, hd, 0) IN
    IF k < 0 THEN Res(f, hd, "no_root", << >>)
    ELSE Res(f, [hd EXCEPT !.root_dir_start = SlotPos(f, hd, k)], "ok", << >>)

\* fileSys(size_mb, filename) when the backing file exists
open_fs(f, size_mb) == set_initial_directory(f, HandleFromHeader(f, size_mb))

\* ---------------------------------------------------------------------
\* inputs
\* ---------------------------------------------------------------------
NmEmpty == << >>
NmRoot == << Slash >>
NmA == << ChA >>
NmB == << ChB >>
NmLong == Rep(ChA, MaxFilenameLength + 1)
NmAB == << ChA, ChB >>

CtEmpty == << >>
CtShort == << ChA, ChB >>
CtTwo == Rep(ChB, BlockSize + 1)
CtFill == Rep(ChA, BytesPerMB)
CtOver == Rep(ChA, BytesPerMB + 1)
CtBad == << BadByte, ChA >>

\* ---------------------------------------------------------------------
\* state machine
\*   file  the bytes of the backing file
\*   h     the fields of the handle in use
\*   fmt   the fields the handle had when the store was formatted
\*   last  the most recent call: name, arguments, how it ended, what it
\*         returned, and the file and handle it started from
\*   left  calls still to be made (bounds the exploration)
\* ---------------------------------------------------------------------
Call(op, name, arg, r) ==
    /\ left > 0
    /\ file' = r.f
    /\ h' = r.hd
    /\ last' = [op |-> op, name |-> name, arg |-> arg, outcome |-> r.outcome,
                out |-> r.out, f0 |-> file, hd0 |-> h]
    /\ left' = left - 1
    /\ UNCHANGED fmt

\* a store formatted with size_mb by the constructor, n calls to follow
Formatted(size_mb, n) ==
    /\ file = create_fs(NewHandle(size_mb)).f
    /\ h = NewHandle(size_mb)
    /\ fmt = NewHandle(size_mb)
    /\ last = [op |-> "create_fs", name |-> << >>, arg |-> << >>, outcome |-> "ok",
               out |-> << >>, f0 |-> << >>, hd0 |-> NewHandle(size_mb)]
    /\ left = n

Init == \E size_mb \in 0..MaxSizeMb : Formatted(size_mb, MaxOps)

CreateDirectory(NS) == \E n \in NS : Call("create_directory", n, << >>, create_directory(file, h, n))

CreateTextFile(NS, CS) ==
    \E n \in NS, c \in CS : Call("create_text_file", n, c, create_text_file(file, h, n, c))

CopyToFs(NS, CS) == \E n \in NS, c \in CS : Call("copy_to_fs", n, c, copy_to_fs(file, h, n, c))

RenameFile(NS, MS) == \E n \in NS, m \in MS : Call("rename_file", n, m, rename_file(file, h, n, m))

RemoveFile(NS) == \E n \in NS : Call("remove_file", n, << >>, remove_file(file, h, n))

ProtectFile(NS) == \E n \in NS : Call("protect_file", n, << >>, protect_file(file, h, n))

UnprotectFile(NS) == \E n \in NS : Call("unprotect_file", n, << >>, unprotect_file(file, h, n))

Move(NS, MS) == \E n \in NS, m \in MS : Call("move", n, m, move(file, h, n, m))

ChangeDirectory(NS) == \E n \in NS : Call("change_directory", n, << >>, change_directory(file, h, n))

ShowTextFile(NS) == \E n \in NS : Call("show_text_file", n, << >>, show_text_file(file, h, n))

ListFiles == Call("list_files", << >>, << >>, list_files(file, h))

FreeSpace == Call("free_space", << >>, << >>, Res(file, h, "ok", << free_space(file, h) >>))

\* a new handle on the existing file; when the constructor raises there is
\* no new handle and the old one stays in use
Reopen == \E size_mb \in 0..MaxSizeMb :
    LET r == open_fs(file, size_mb) IN
    Call("open", << >>, << size_mb >>, IF r.outcome = "ok" THEN r ELSE Res(file, h, r.outcome, << >>))

Next ==
    \/ CreateDirectory({NmA, NmRoot, NmEmpty})
    \/ CreateTextFile({NmA, NmB}, {CtEmpty, CtShort, CtTwo, CtOver})
    \/ CopyToFs({NmA}, {CtShort, CtTwo, CtFill, CtOver})
    \/ RenameFile({NmA, NmRoot}, {NmB})
    \/ RemoveFile({NmA, NmRoot})
    \/ ProtectFile({NmA})
    \/ UnprotectFile({NmA})
    \/ Move({NmA}, {NmB, NmRoot})
    \/ ChangeDirectory({NmA, NmRoot})
    \/ ShowTextFile({NmA, NmB})
    \/ ListFiles
    \/ FreeSpace
    \/ Reopen

Spec == Init /\ [][Next]_vars

\* creating entries until the directory is full, in the root scope and in
\* the scope of a directory entered with change_directory
NextDir ==
    \/ CreateDirectory({NmA, NmEmpty})
    \/ CreateTextFile({NmA}, {CtShort, CtOver})
    \/ CopyToFs({NmB}, {CtShort, CtOver})
    \/ RemoveFile({NmA})
    \/ ChangeDirectory({NmA})

InitDir == \E size_mb \in 0..MaxSizeMb : Formatted(size_mb, MaxDirOps)

SpecDir == InitDir /\ [][NextDir]_vars

\* a store whose scan base has been moved by change_directory
InitScope == \E size_mb \in 1..MaxSizeMb : Formatted(size_mb, MaxScopeOps)

NextScope ==
    \/ CreateDirectory({NmB})
    \/ ChangeDirectory({NmB})
    \/ CopyToFs({NmA}, {CtBad})
    \/ RemoveFile({NmA})
    \/ ShowTextFile({NmA})
    \/ RenameFile({NmA}, {NmB})
    \/ ProtectFile({NmA})
    \/ UnprotectFile({NmA})

SpecScope == InitScope /\ [][NextScope]_vars

\* calls with names a caller may pass that no entry was created under:
\* the empty name and a name one byte longer than the name field
NextNames ==
    \/ CreateDirectory({NmB, NmLong})
    \/ CreateTextFile({NmLong}, {CtShort})
    \/ CopyToFs({NmLong}, {CtShort})
    \/ RenameFile({NmB, NmEmpty}, {NmA, NmLong})
    \/ RemoveFile({NmB, NmEmpty})
    \/ ProtectFile({NmEmpty})
    \/ UnprotectFile({NmEmpty})
    \/ Move({NmB, NmEmpty}, {NmRoot, NmEmpty})
    \/ ShowTextFile({NmEmpty})

InitNames == \E size_mb \in 1..MaxSizeMb : Formatted(size_mb, MaxNameOps)

SpecNames == InitNames /\ [][NextNames]_vars

\* creating, removing, renaming, moving and listing entries of the root scope
NextList ==
    \/ CreateDirectory({NmA, NmB})
    \/ CreateTextFile({NmB}, {CtShort})
    \/ CopyToFs({NmA}, {CtShort})
    \/ RemoveFile({NmA, NmB})
    \/ RenameFile({NmA}, {NmB})
    \/ Move({NmA}, {NmB})
    \/ ListFiles

InitList == \E size_mb \in 1..MaxSizeMb : Formatted(size_mb, MaxListOps)

SpecList == InitList /\ [][NextList]_vars

\* renaming and flagging entries, in the root scope and in the scope of a
\* directory, by the name of an entry and by a name equal to the bytes a
\* file's content starts with
NextFrame ==
    \/ CreateDirectory({NmB})
    \/ ChangeDirectory({NmB})
    \/ CreateTextFile({NmA}, {CtShort})
    \/ RenameFile({NmA, NmAB}, {NmB})
    \/ ProtectFile({NmA, NmAB})
    \/ UnprotectFile({NmA, NmAB})

InitFrame == \E size_mb \in 1..MaxSizeMb : Formatted(size_mb, MaxFrameOps)

SpecFrame == InitFrame /\ [][NextFrame]_vars

\* ---------------------------------------------------------------------
\* vocabulary of the properties
\* ---------------------------------------------------------------------
Writes == {"create_text_file", "copy_to_fs"}

Creates == {"create_directory", "create_text_file", "copy_to_fs"}

ByName == {"show_text_file", "rename_file", "remove_file", "protect_file", "unprotect_file"}

CeilDiv(n, d) == (n + d - 1) \div d

\* the allocation table and the directory table of the persisted geometry
FatBytes(f, hd) == ReadAt(f, hd.fat_start, TotalBlocks(hd) * WordSize)

DirBytes(f, hd) ==
    ReadAt(f, hd.fat_start + TotalBlocks(hd) * WordSize, DirCapacity * EntrySize(hd))

\* the scanned slots that carry name
Carriers(f, hd, name) == {i \in 0..(DirCapacity - 1) : EntryName(f, hd, i) = name}

\* none of the scanned slots is empty
NoEmptySlot(f, hd) == \A i \in 0..(DirCapacity - 1) : EntryName(f, hd, i) # << >>

\* the last call was a write that succeeded
Wrote == last.op \in Writes /\ last.outcome = "ok"

\* ---------------------------------------------------------------------
\* C1  Round trip: after a successful write of b under name, reading name
\*     yields exactly b.
\* ---------------------------------------------------------------------
C1_RoundTrip ==
    Wrote => /\ show_text_file(file, h, last.name).outcome = "ok"
             /\ show_text_file(file, h, last.name).out = last.arg

\* ---------------------------------------------------------------------
\* C2  Allocation conservation on write: a successful write of b bytes
\*     raises the number of used allocation-table slots by exactly
\*     ceil(len(b)/block_size) and lowers free_space() by that many blocks.
\* ---------------------------------------------------------------------
C2_AllocationOnWrite ==
    Wrote => /\ used_blocks(file, h) = used_blocks(last.f0, last.hd0)
                                          + CeilDiv(Len(last.arg), h.block_size)
             /\ free_space(file, h) = free_space(last.f0, last.hd0)
                                          - CeilDiv(Len(last.arg), h.block_size) * h.block_size

\* ---------------------------------------------------------------------
\* C3  Allocation conservation on remove: when a file is written and then
\*     removed, the used slots and free_space() are back to the values
\*     they had before the write.
\* ---------------------------------------------------------------------
C3_AllocationOnRemove ==
    [][ (Wrote /\ last'.op = "remove_file" /\ last'.name = last.name /\ last'.outcome = "ok")
        => /\ used_blocks(file', h') = used_blocks(last.f0, last.hd0)
           /\ free_space(file', h') = free_space(last.f0, last.hd0) ]_vars

\* ---------------------------------------------------------------------
\* C4  Protection enforcement: after protect_file(name), rename_file and
\*     remove_file of name fail with a protected error and leave the store
\*     unchanged; after unprotect_file(name) the same calls succeed.
\* ---------------------------------------------------------------------
C4_ProtectionEnforced ==
    [][ /\ (last.op = "protect_file" /\ last.outcome = "ok"
            /\ last'.op \in {"rename_file", "remove_file"} /\ last'.name = last.name)
           => (last'.outcome = "protected" /\ file' = file)
        /\ (last.op = "unprotect_file" /\ last.outcome = "ok"
            /\ last'.op \in {"rename_file", "remove_file"} /\ last'.name = last.name)
           => last'.outcome = "ok" ]_vars

\* ---------------------------------------------------------------------
\* C5  No partial commit on out-of-space: a write that fails for lack of
\*     space leaves the allocation table as it was, so free_space() is
\*     unchanged.
\* ---------------------------------------------------------------------
C5_NoPartialCommit ==
    (last.op \in Writes /\ last.outcome = "no_space")
        => /\ FatBytes(file, h) = FatBytes(last.f0, last.hd0)
           /\ free_space(file, h) = free_space(last.f0, last.hd0)

\* ---------------------------------------------------------------------
\* C6  No dangling entry on out-of-space: a write that fails for lack of
\*     space leaves the directory table as it was; no entry for the name
\*     exists that was not there before.
\* ---------------------------------------------------------------------
C6_NoDanglingEntry ==
    (last.op \in Writes /\ last.outcome = "no_space")
        => /\ DirBytes(file, h) = DirBytes(last.f0, last.hd0)
           /\ Carriers(file, h, last.name) = Carriers(last.f0, last.hd0, last.name)

\* ---------------------------------------------------------------------
\* C7  Directory-full boundary: a create fails with directory-full exactly
\*     when none of the scanned slots is empty; with the '/' entry of a
\*     fresh store counted, the entry that fills the last slot is created
\*     and the next create fails.
\* ---------------------------------------------------------------------
\* the non-empty slots of the scan
ActiveSlots(f, hd) == {i \in 0..(DirCapacity - 1) : EntryName(f, hd, i) # << >>}

\* the claim as stated, for all three creating operations
C7_DirectoryFullAsStated ==
    last.op \in Creates => (last.outcome = "dir_full" <=> NoEmptySlot(last.f0, last.hd0))

\* C7 as amended: create_directory and copy_to_fs fail with directory-full
\* exactly when none of the scanned slots is empty (so a create into a
\* scope with fewer than DirCapacity non-empty slots never does);
\* create_text_file scans the slots only after its block loop, and fails
\* with directory-full exactly when that loop did not raise out-of-space
\* and none of the slots scanned after it is empty.
C7_DirectoryFull ==
    /\ last.op \in {"create_directory", "copy_to_fs"}
         => /\ last.outcome = "dir_full" <=> NoEmptySlot(last.f0, last.hd0)
            /\ last.outcome = "dir_full"
                 <=> Cardinality(ActiveSlots(last.f0, last.hd0)) = DirCapacity
    /\ last.op = "create_text_file"
         => (last.outcome = "dir_full"
               <=> /\ last.outcome # "no_space"
                   /\ NoEmptySlot(CreateLoop(last.f0, last.hd0, last.hd0.fat_start, 0, last.arg).f,
                                  last.hd0))

\* a create was refused by a directory whose scanned slots are all taken
C7_Witness ==
    /\ last.op \in Creates
    /\ last.outcome = "dir_full"
    /\ Cardinality(ActiveSlots(last.f0, last.hd0)) = DirCapacity

\* ---------------------------------------------------------------------
\* C8  Chain termination: reading an existing file follows at most
\*     total_blocks allocation-table links, all of them inside the table,
\*     and then stops.
\* ---------------------------------------------------------------------
\* the allocation-table indices show_text_file reads for the entry in slot k
LinksRead(f, hd, k) == {k} \cup WalkOf(f, hd, k).links

C8_ChainTermination ==
    Wrote => LET k == ScanName(file, h, last.name, 0, FALSE) IN
             /\ k >= 0
             /\ WalkOf(file, h, k).end = "ok"
             /\ Cardinality(WalkOf(file, h, k).links) <= TotalBlocks(h)
             /\ \A i \in LinksRead(file, h, k) : i < TotalBlocks(h)

\* ---------------------------------------------------------------------
\* C9  Geometry is stable across reopen: a handle opened on a formatted
\*     store, whatever size the caller passes, has the format-time
\*     block size, block count and offsets, with
\*     dir_start = fat_start + total_blocks * 4 and
\*     data_start = dir_start + capacity * entry_size.
\* ---------------------------------------------------------------------
C9_GeometryStable ==
    (last.op = "open" /\ last.outcome = "ok")
        => /\ h.block_size = fmt.block_size
           /\ TotalBlocks(h) = TotalBlocks(fmt)
           /\ h.fat_start = fmt.fat_start
           /\ h.root_dir_start = fmt.root_dir_start
           /\ h.data_start = fmt.data_start
           /\ h.root_dir_start = h.fat_start + TotalBlocks(h) * WordSize
           /\ h.data_start = h.root_dir_start + DirCapacity * EntrySize(h)

\* ---------------------------------------------------------------------
\* C10 Not-found after remove: once remove_file(name) has succeeded where
\*     the non-empty name was carried by exactly one entry, reading,
\*     renaming, removing, protecting and unprotecting name each fail with
\*     not-found and leave the backing store unchanged.
\* ---------------------------------------------------------------------
C10_NotFoundAfterRemove ==
    [][ ( /\ last.op = "remove_file" /\ last.outcome = "ok" /\ last.name # << >>
          /\ Cardinality(Carriers(last.f0, last.hd0, last.name)) = 1
          /\ last'.op \in ByName /\ last'.name = last.name )
        => (last'.outcome = "not_found" /\ file' = file) ]_vars

\* ---------------------------------------------------------------------
\* C11 Exclusive block ownership: a successful write stores data only in
\*     blocks that were free in the allocation table before the call and
\*     that it marks used; so every data block whose bytes the write
\*     changed had a zero slot before the call and has a non-zero slot
\*     after it.
\* ---------------------------------------------------------------------
\* the 4-byte allocation-table slot of block i
FatWord(f, hd, i) == ReadAt(f, hd.fat_start + i * WordSize, WordSize)

\* the bytes of data block i; the part of a block that lies past the end
\* of the backing file holds nothing and is taken as zero bytes
DataBlock(f, hd, i) ==
    Ljust(ReadAt(f, hd.data_start + i * hd.block_size, hd.block_size), hd.block_size)

\* the data blocks whose bytes differ between f0 and f
BlocksChanged(f0, f, hd) ==
    {i \in 0..(TotalBlocks(hd) - 1) : DataBlock(f, hd, i) # DataBlock(f0, hd, i)}

C11_ExclusiveOwnership ==
    Wrote => \A i \in BlocksChanged(last.f0, file, h) :
                /\ FatWord(last.f0, h, i) = Zeros(WordSize)
                /\ FatWord(file, h, i) # Zeros(WordSize)

\* ---------------------------------------------------------------------
\* C12 Chain format: after a successful write the allocation-table slots
\*     it wrote form a chain: one of them holds the end marker 0xFFFFFFFF
\*     and every other holds the index of another block of the same
\*     write; and every slot of the table is 0, the end marker or the
\*     index of a block.
\* ---------------------------------------------------------------------
\* 0xFFFFFFFF as the four bytes struct.pack writes (two's complement of -1)
EndMarker == Pack(-1)

\* the allocation-table slots whose bytes differ between f0 and f
SlotsChanged(f0, f, hd) ==
    {i \in 0..(TotalBlocks(hd) - 1) : FatWord(f, hd, i) # FatWord(f0, hd, i)}

C12_ChainFormat ==
    Wrote => LET new == SlotsChanged(last.f0, file, h) IN
             /\ new # {} => \E i \in new : FatWord(file, h, i) = EndMarker
             /\ \A i \in new : \/ FatWord(file, h, i) = EndMarker
                               \/ Unpack(FatWord(file, h, i)) \in new
             /\ \A i \in 0..(TotalBlocks(h) - 1) :
                   \/ FatWord(file, h, i) \in {Zeros(WordSize), EndMarker}
                   \/ Unpack(FatWord(file, h, i)) \in 0..(TotalBlocks(h) - 1)

\* ---------------------------------------------------------------------
\* C13 change_directory selects directories only: for the name of a file
\*     just written, carried by no other entry, it fails with not-found
\*     and leaves the scan base unchanged; and a successful protect_file
\*     or unprotect_file of a name does not change whether
\*     change_directory of that name succeeds (a file stays unselectable
\*     in any protection state, a directory stays selectable).
\* ---------------------------------------------------------------------
C13_DirectoriesOnly ==
    /\ (Wrote /\ Cardinality(Carriers(file, h, last.name)) = 1)
          => /\ change_directory(file, h, last.name).outcome = "not_found"
             /\ change_directory(file, h, last.name).hd = h
    /\ (last.op \in {"protect_file", "unprotect_file"} /\ last.outcome = "ok")
          => change_directory(file, h, last.name).outcome
                = change_directory(last.f0, last.hd0, last.name).outcome

\* ---------------------------------------------------------------------
\* C14 Name-too-long rejection: create_directory, create_text_file,
\*     copy_to_fs and rename_file called with a (new) name longer than the
\*     name field fail with a name-too-long error and leave the backing
\*     file as it was.
\* ---------------------------------------------------------------------
\* the last call was given a name for an entry that is longer than the field
LongName ==
    \/ last.op \in Creates /\ Len(last.name) > h.max_filename_length
    \/ last.op = "rename_file" /\ Len(last.arg) > h.max_filename_length

C14_NameTooLong == LongName => (last.outcome = "name_too_long" /\ file = last.f0)

\* ---------------------------------------------------------------------
\* C15 move without rollback: when an active entry carries the source name
\*     and no other active entry carries the destination name, move fails
\*     with not-found, the first slot carrying the source name has been
\*     zeroed, nothing else has changed and no slot carries the source
\*     name any more; when no active entry carries the source name, move
\*     fails with not-found and the backing file is unchanged.
\* ---------------------------------------------------------------------
\* an active entry of the scope carries name (an empty slot carries no name)
Present(f, hd, name) == name # << >> /\ Carriers(f, hd, name) # {}

\* the first slot carrying name
FirstCarrier(f, hd, name) == CHOOSE k \in Carriers(f, hd, name) :
                                \A j \in Carriers(f, hd, name) : k <= j

C15_MoveNoRollback ==
    last.op = "move" =>
        /\ ( /\ Present(last.f0, last.hd0, last.name)
             /\ \/ last.arg = << >>
                \/ Carriers(last.f0, last.hd0, last.arg)
                      \subseteq {FirstCarrier(last.f0, last.hd0, last.name)} )
           => /\ last.outcome = "not_found"
              /\ file = WriteAt(last.f0,
                                SlotPos(last.f0, last.hd0,
                                        FirstCarrier(last.f0, last.hd0, last.name)),
                                Zeros(EntrySize(h)))
              /\ Carriers(file, h, last.name) = {}
        /\ ~Present(last.f0, last.hd0, last.name)
           => (last.outcome = "not_found" /\ file = last.f0)

\* ---------------------------------------------------------------------
\* C16 move success: after a successful move(name, dest) with name # dest
\*     the slot that held name is all zero, the slot that held dest holds
\*     the original entry of name with the flag byte set to 1, and the
\*     allocation table and the data region are unchanged.
\* ---------------------------------------------------------------------
\* the bytes of the backing file from data_start on
DataBytes(f, hd) == Drop(f, hd.data_start)

C16_MoveSuccess ==
    (last.op = "move" /\ last.outcome = "ok" /\ last.name # last.arg)
        => LET k == FirstCarrier(last.f0, last.hd0, last.name)
               d == FirstCarrier(last.f0, last.hd0, last.arg)
               e == Entry(last.f0, last.hd0, k)
           IN /\ Entry(file, h, k) = Zeros(EntrySize(h))
              /\ Entry(file, h, d) = Take(e, h.max_filename_length) \o <<1>>
                                        \o Drop(e, h.max_filename_length + 1)
              /\ FatBytes(file, h) = FatBytes(last.f0, last.hd0)
              /\ DataBytes(file, h) = DataBytes(last.f0, last.hd0)

\* ---------------------------------------------------------------------
\* C17 No by-name operation matches an empty slot: rename_file,
\*     remove_file, protect_file, unprotect_file, move and show_text_file
\*     called with a name that no active entry of the scope carries, the
\*     empty name included, fail with not-found and leave the backing file
\*     as it was.
\* ---------------------------------------------------------------------
C17_NoEmptyMatch ==
    (last.op \in ByName \cup {"move"} /\ ~Present(last.f0, last.hd0, last.name))
        => (last.outcome = "not_found" /\ file = last.f0)

\* ---------------------------------------------------------------------
\* C18 list order.
\* ---------------------------------------------------------------------
RECURSIVE NamesIn(_, _, _, _)
\* the non-empty names of slots i .. n-1 of the scope, in slot order
NamesIn(f, hd, i, n) ==
    IF i >= n THEN << >>
    ELSE (IF EntryName(f, hd, i) # << >> THEN << EntryName(f, hd, i) >> ELSE << >>)
            \o NamesIn(f, hd, i + 1, n)

\* the names of the active entries of the scope, in slot order
ActiveNames(f, hd) == NamesIn(f, hd, 0, DirCapacity)

\* the empty slots of the scope
EmptySlots(f, hd) == {i \in 0..(DirCapacity - 1) : EntryName(f, hd, i) = << >>}

\* the lowest empty slot
LowestEmpty(f, hd) == CHOOSE k \in EmptySlots(f, hd) : \A j \in EmptySlots(f, hd) : k <= j

\* list_files returned the names of the active entries in slot order
ListedInSlotOrder ==
    last.op = "list_files" => (last.outcome = "ok" /\ last.out = ActiveNames(file, h))

\* C18 as stated: list_files() returns the names of the active entries in
\* slot order, and slot order is creation order, so the entry created by
\* the latest successful create is the last one listed.
C18_ListOrderAsStated ==
    /\ ListedInSlotOrder
    /\ (last.op \in Creates /\ last.outcome = "ok" /\ last.name # << >>)
          => /\ ActiveNames(file, h) # << >>
             /\ ActiveNames(file, h)[Len(ActiveNames(file, h))] = last.name

\* C18 as amended: list_files() returns the names of the active entries
\* in slot order; a successful create puts its entry into the lowest
\* empty slot and leaves every other slot as it was, so the new name is
\* listed after the entries of lower slots and before those of higher
\* slots, and it is listed last when no active entry follows that slot.
C18_ListOrder ==
    /\ ListedInSlotOrder
    /\ (last.op \in Creates /\ last.outcome = "ok")
          => LET k == LowestEmpty(last.f0, last.hd0) IN
             /\ EmptySlots(last.f0, last.hd0) # {}
             /\ Take(Entry(file, h, k), h.max_filename_length)
                   = Take(Ljust(last.name, h.max_filename_length), h.max_filename_length)
             /\ \A i \in 0..(DirCapacity - 1) :
                   i # k => Entry(file, h, i) = Entry(last.f0, last.hd0, i)
             /\ last.name # << >>
                   => ActiveNames(file, h)
                         = NamesIn(last.f0, last.hd0, 0, k) \o << last.name >>
                              \o NamesIn(last.f0, last.hd0, k + 1, DirCapacity)

\* an entry was created in a slot below an active entry
C18_Witness ==
    /\ last.op \in Creates /\ last.outcome = "ok" /\ last.name # << >>
    /\ EmptySlots(last.f0, last.hd0) # {}
    /\ \E j \in ActiveSlots(last.f0, last.hd0) : j > LowestEmpty(last.f0, last.hd0)

\* ---------------------------------------------------------------------
\* C19 In-place mutation frame: a successful rename_file to a name within
\*     the field width, protect_file or unprotect_file rewrites, in the
\*     first slot of the scan that carries the name, only the name field
\*     (rename) or only the flag byte (1 by protect, 0 by unprotect); the
\*     header, the allocation table and the data region are unchanged,
\*     and a second protect_file or unprotect_file changes nothing more.
\* ---------------------------------------------------------------------
\* the header of the backing file
HeaderBytes(f, hd) == ReadAt(f, 0, hd.header_size)

\* the entry the last call had to leave in place of entry e
Rewritten(e) ==
    IF last.op = "rename_file"
    THEN Ljust(last.arg, h.max_filename_length) \o Drop(e, h.max_filename_length)
    ELSE Take(e, h.max_filename_length) \o << IF last.op = "protect_file" THEN 1 ELSE 0 >>
            \o Drop(e, h.max_filename_length + 1)

C19_InPlaceFrame ==
    ( /\ last.op \in {"rename_file", "protect_file", "unprotect_file"}
      /\ last.outcome = "ok"
      /\ last.op = "rename_file" => Len(last.arg) <= h.max_filename_length )
    => /\ Carriers(last.f0, last.hd0, last.name) # {}
       /\ LET k == FirstCarrier(last.f0, last.hd0, last.name) IN
          file = WriteAt(last.f0, SlotPos(last.f0, last.hd0, k),
                         Rewritten(Entry(last.f0, last.hd0, k)))
       /\ h = last.hd0
       /\ HeaderBytes(file, h) = HeaderBytes(last.f0, last.hd0)
       /\ FatBytes(file, h) = FatBytes(last.f0, last.hd0)
       /\ DataBytes(file, h) = DataBytes(last.f0, last.hd0)
       /\ last.op = "protect_file" => protect_file(file, h, last.name).f = file
       /\ last.op = "unprotect_file" => unprotect_file(file, h, last.name).f = file

\* ---------------------------------------------------------------------
\* C20 Directory operations stay inside the directory table: in every
\*     reachable state each slot of the directory scan lies in
\*     [dir_start, data_start) of the format-time geometry, and an
\*     operation that writes directory entries only leaves the data
\*     region as it was.
\* ---------------------------------------------------------------------
\* the operations that write directory entries and nothing else
DirWrites == {"create_directory", "rename_file", "remove_file", "protect_file",
              "unprotect_file", "move"}

C20_InsideDirectoryTable ==
    /\ \A i \in 0..(DirCapacity - 1) :
          /\ SlotPos(file, h, i) >= fmt.root_dir_start
          /\ SlotPos(file, h, i) + EntrySize(h) <= fmt.data_start
    /\ last.op \in DirWrites => DataBytes(file, fmt) = DataBytes(last.f0, fmt)

\* ---------------------------------------------------------------------
\* C21 A formatted store can always be reopened: constructing a new handle
\*     on the existing backing file succeeds, and the scan base of the new
\*     handle is the first slot of the directory table.
\* ---------------------------------------------------------------------
C21_ReopenPossible ==
    last.op = "open" => /\ last.outcome = "ok"
                        /\ h.root_dir_start = fmt.root_dir_start

\* ---------------------------------------------------------------------
\* C22 A write that fails with directory-full leaves the allocation table
\*     and the data region unchanged: free_space() is the same as before
\*     the call and no block has been marked used by it.
\* ---------------------------------------------------------------------
C22_DirFullNoAllocation ==
    (last.op \in Writes /\ last.outcome = "dir_full")
        => /\ FatBytes(file, h) = FatBytes(last.f0, last.hd0)
           /\ DataBytes(file, h) = DataBytes(last.f0, last.hd0)
           /\ free_space(file, h) = free_space(last.f0, last.hd0)
           /\ used_blocks(file, h) = used_blocks(last.f0, last.hd0)

====
